---- MODULE Spec2Model ----
(***************************************************************************)
(* The Slicable codec of polkadot/runtime/src/primitives.rs: the encode    *)
(* and decode of Id, Chain, DutyRoster, CandidateReceipt, Statement and    *)
(* Activity, and the ordering of CandidateReceipt.                         *)
(*                                                                         *)
(* A byte is a number in 0..255.  A u32 is a natural number; a u64 is the  *)
(* record of its two 32-bit halves [lo, hi].  All sample bytes are at most *)
(* 127 so that every u32 read from any input stays below 2^31.             *)
(***************************************************************************)
EXTENDS Integers, Sequences, FiniteSets, TLC

\* ------------------------------------------------------------------------
\* Bounds of the model
\* ------------------------------------------------------------------------
MaxHead == 2
MaxUploads == 1
MaxEgress == 1
MaxDuty == 2
MaxSuffix == 1

\* Width in bytes of an H256 (AccountId, Hash).
H256Len == 32

\* ------------------------------------------------------------------------
\* The reader: Input for a byte slice.  buf is the whole input, pos the
\* number of bytes consumed, log the reads issued so far.
\* ------------------------------------------------------------------------
NewInput(b) == [buf |-> b, pos |-> 0, log |-> <<>>]

Remaining(in) == SubSeq(in.buf, in.pos + 1, Len(in.buf))

Ok(val, in) == [ok |-> TRUE, val |-> val, in |-> in]

Fail(in) == [ok |-> FALSE, val |-> <<>>, in |-> in]

\* The ? of an Option (as in `input.read_byte()?`, primitives.rs line 140):
\* the rest runs on Some, None is returned at once.
AndThen(r, F(_, _)) == IF r.ok THEN F(r.val, r.in) ELSE Fail(r.in)

\* Input::read_byte: the next byte, or None at the end of the input.
ReadByte(in) ==
    IF in.pos < Len(in.buf)
    THEN Ok(in.buf[in.pos + 1],
            [in EXCEPT !.pos = in.pos + 1,
                       !.log = Append(in.log, [at |-> in.pos, want |-> 1, got |-> 1])])
    ELSE Fail([in EXCEPT !.log = Append(in.log, [at |-> in.pos, want |-> 1, got |-> 0])])

\* Input::read of n bytes: the next n bytes, or failure when fewer remain.
Read(in, n) ==
    LET left == Len(in.buf) - in.pos IN
    IF n <= left
    THEN Ok(SubSeq(in.buf, in.pos + 1, in.pos + n),
            [in EXCEPT !.pos = in.pos + n,
                       !.log = Append(in.log, [at |-> in.pos, want |-> n, got |-> n])])
    ELSE Fail([in EXCEPT !.log = Append(in.log, [at |-> in.pos, want |-> n, got |-> left])])

\* ------------------------------------------------------------------------
\* Primitive encodings: fixed-width little-endian integers, H256, Vec<u8>.
\* ------------------------------------------------------------------------
EncodeU32(n) ==
    << n % 256, (n \div 256) % 256, (n \div 65536) % 256, (n \div 16777216) % 256 >>

FromLE32(b) == b[1] + 256 * b[2] + 65536 * b[3] + 16777216 * b[4]

DecodeU32(in) == AndThen(Read(in, 4), LAMBDA b, rest : Ok(FromLE32(b), rest))

EncodeU64(x) == EncodeU32(x.lo) \o EncodeU32(x.hi)

DecodeU64(in) ==
    AndThen(Read(in, 8), LAMBDA b, rest :
        Ok([lo |-> FromLE32(SubSeq(b, 1, 4)), hi |-> FromLE32(SubSeq(b, 5, 8))], rest))

EncodeH256(h) == h

DecodeH256(in) == Read(in, H256Len)

\* The length prefix of a sequence: the element count as a u32.
LengthPrefix(n) == EncodeU32(n)

EncodeVecU8(bs) == LengthPrefix(Len(bs)) \o bs

DecodeVecU8(in) == AndThen(DecodeU32(in), LAMBDA n, rest : Read(rest, n))

\* Tuples encode as the concatenation of their components.
EncodeUpload(p) == EncodeH256(p[1]) \o EncodeU64(p[2])

DecodeUpload(in) ==
    AndThen(DecodeH256(in), LAMBDA a, in1 :
    AndThen(DecodeU64(in1), LAMBDA b, in2 :
    Ok(<<a, b>>, in2)))

\* ------------------------------------------------------------------------
\* parachain::Id
\* ------------------------------------------------------------------------
EncodeId(id) == EncodeU32(id)

DecodeId(in) == DecodeU32(in)

EncodeEgress(p) == EncodeId(p[1]) \o EncodeH256(p[2])

DecodeEgress(in) ==
    AndThen(DecodeId(in), LAMBDA a, in1 :
    AndThen(DecodeH256(in1), LAMBDA b, in2 :
    Ok(<<a, b>>, in2)))

\* ------------------------------------------------------------------------
\* parachain::Chain
\* ------------------------------------------------------------------------
Relay == [tag |-> "Relay"]

Parachain(id) == [tag |-> "Parachain", id |-> id]

\* Mutant: an unknown discriminant falls back to Relay.
DecodeChainFallback(in) ==
    AndThen(ReadByte(in), LAMBDA disc, in1 :
        CASE disc = 1 -> AndThen(DecodeId(in1), LAMBDA id, in2 : Ok(Parachain(id), in2))
          [] OTHER -> Ok(Relay, in1))

\* Mutant: the id is read for every variant.
DecodeChainAlwaysId(in) ==
    AndThen(ReadByte(in), LAMBDA disc, in1 :
    AndThen(DecodeId(in1), LAMBDA id, in2 :
        CASE disc = 0 -> Ok(Relay, in2)
          [] disc = 1 -> Ok(Parachain(id), in2)
          [] OTHER -> Fail(in2)))

DecodeChain(in) ==
    AndThen(ReadByte(in), LAMBDA disc, in1 :
        CASE disc = 0 -> Ok(Relay, in1)
          [] disc = 1 -> AndThen(DecodeId(in1), LAMBDA id, in2 : Ok(Parachain(id), in2))
          [] OTHER -> Fail(in1))

EncodeChain(c) ==
    IF c.tag = "Relay" THEN <<0>> ELSE <<1>> \o EncodeId(c.id)

\* ------------------------------------------------------------------------
\* Vec<T> for T in Chain, (AccountId, u64), (Id, Hash): the element count,
\* then each element.
\* ------------------------------------------------------------------------
EncodeElem(kind, x) ==
    CASE kind = "Chain" -> EncodeChain(x)
      [] kind = "Upload" -> EncodeUpload(x)
      [] kind = "Egress" -> EncodeEgress(x)

DecodeElem(kind, in) ==
    CASE kind = "Chain" -> DecodeChain(in)
      [] kind = "Upload" -> DecodeUpload(in)
      [] kind = "Egress" -> DecodeEgress(in)

RECURSIVE EncodeElems(_, _)
EncodeElems(kind, xs) ==
    IF xs = <<>> THEN <<>>
    ELSE EncodeElem(kind, Head(xs)) \o EncodeElems(kind, Tail(xs))

EncodeVec(kind, xs) == LengthPrefix(Len(xs)) \o EncodeElems(kind, xs)

RECURSIVE DecodeElems(_, _, _, _)
DecodeElems(kind, n, in, acc) ==
    IF n = 0 THEN Ok(acc, in)
    ELSE AndThen(DecodeElem(kind, in), LAMBDA x, rest :
             DecodeElems(kind, n - 1, rest, Append(acc, x)))

DecodeVec(kind, in) ==
    AndThen(DecodeU32(in), LAMBDA n, rest : DecodeElems(kind, n, rest, <<>>))

\* ------------------------------------------------------------------------
\* parachain::DutyRoster
\* ------------------------------------------------------------------------
\* Mutant: both sequences are decoded before either result is examined.
BothDuties(vd, gd) ==
    IF vd.ok /\ gd.ok
    THEN Ok([validator_duty |-> vd.val, guarantor_duty |-> gd.val], gd.in)
    ELSE Fail(gd.in)

ThenGuarantorDuty(vd) == BothDuties(vd, DecodeVec("Chain", vd.in))

DecodeDutyRosterEager(in) == ThenGuarantorDuty(DecodeVec("Chain", in))

DecodeDutyRoster(in) ==
    AndThen(DecodeVec("Chain", in), LAMBDA vd, in1 :
    AndThen(DecodeVec("Chain", in1), LAMBDA gd, in2 :
    Ok([validator_duty |-> vd, guarantor_duty |-> gd], in2)))

\* Mutant: guarantor_duty is written first.
EncodeDutyRosterSwapped(r) ==
    EncodeVec("Chain", r.guarantor_duty) \o EncodeVec("Chain", r.validator_duty)

EncodeDutyRoster(r) ==
    EncodeVec("Chain", r.validator_duty) \o EncodeVec("Chain", r.guarantor_duty)

\* ------------------------------------------------------------------------
\* parachain::CandidateReceipt
\* ------------------------------------------------------------------------
\* Mutant: egress_queue_roots is written before balance_uploads.
EncodeCandidateReceiptSwapped(r) ==
    EncodeId(r.parachain_index)
        \o EncodeH256(r.collator)
        \o EncodeVecU8(r.head_data)
        \o EncodeVec("Egress", r.egress_queue_roots)
        \o EncodeVec("Upload", r.balance_uploads)
        \o EncodeU64(r.fees)

EncodeCandidateReceipt(r) ==
    EncodeId(r.parachain_index)
        \o EncodeH256(r.collator)
        \o EncodeVecU8(r.head_data)
        \o EncodeVec("Upload", r.balance_uploads)
        \o EncodeVec("Egress", r.egress_queue_roots)
        \o EncodeU64(r.fees)

\* Mutant: a fees field that fails to decode is taken as zero.
OrZero(r) == IF r.ok THEN r ELSE Ok([lo |-> 0, hi |-> 0], r.in)

DecodeCandidateReceiptDefaultFees(in) ==
    AndThen(DecodeId(in), LAMBDA f1, in1 :
    AndThen(DecodeH256(in1), LAMBDA f2, in2 :
    AndThen(DecodeVecU8(in2), LAMBDA f3, in3 :
    AndThen(DecodeVec("Upload", in3), LAMBDA f4, in4 :
    AndThen(DecodeVec("Egress", in4), LAMBDA f5, in5 :
    AndThen(OrZero(DecodeU64(in5)), LAMBDA f6, in6 :
    Ok([parachain_index |-> f1,
        collator |-> f2,
        head_data |-> f3,
        balance_uploads |-> f4,
        egress_queue_roots |-> f5,
        fees |-> f6], in6)))))))

DecodeCandidateReceipt(in) ==
    AndThen(DecodeId(in), LAMBDA f1, in1 :
    AndThen(DecodeH256(in1), LAMBDA f2, in2 :
    AndThen(DecodeVecU8(in2), LAMBDA f3, in3 :
    AndThen(DecodeVec("Upload", in3), LAMBDA f4, in4 :
    AndThen(DecodeVec("Egress", in4), LAMBDA f5, in5 :
    AndThen(DecodeU64(in5), LAMBDA f6, in6 :
    Ok([parachain_index |-> f1,
        collator |-> f2,
        head_data |-> f3,
        balance_uploads |-> f4,
        egress_queue_roots |-> f5,
        fees |-> f6], in6)))))))

\* Ordering: "Less", "Equal" or "Greater".
CmpU32(a, b) == IF a < b THEN "Less" ELSE IF a > b THEN "Greater" ELSE "Equal"

\* The derived Ord of HeadData(Vec<u8>): lexicographic over the bytes.
RECURSIVE CmpBytes(_, _)
CmpBytes(a, b) ==
    IF a = <<>> /\ b = <<>> THEN "Equal"
    ELSE IF a = <<>> THEN "Less"
    ELSE IF b = <<>> THEN "Greater"
    ELSE IF Head(a) # Head(b) THEN CmpU32(Head(a), Head(b))
    ELSE CmpBytes(Tail(a), Tail(b))

\* Mutant: head_data is compared before parachain_index.
CmpCandidateReceiptHeadFirst(a, b) ==
    LET c == CmpBytes(a.head_data, b.head_data) IN
    IF c # "Equal" THEN c ELSE CmpU32(a.parachain_index, b.parachain_index)

\* Mutant: ties on the key are broken by the fees.
CmpCandidateReceiptFeesTieBreak(a, b) ==
    LET c == CmpU32(a.parachain_index, b.parachain_index)
        d == CmpBytes(a.head_data, b.head_data) IN
    IF c # "Equal" THEN c
    ELSE IF d # "Equal" THEN d
    ELSE CmpBytes(EncodeU64(a.fees), EncodeU64(b.fees))

CmpCandidateReceipt(a, b) ==
    LET c == CmpU32(a.parachain_index, b.parachain_index) IN
    IF c # "Equal" THEN c ELSE CmpBytes(a.head_data, b.head_data)

PartialCmpCandidateReceipt(a, b) == [some |-> TRUE, val |-> CmpCandidateReceipt(a, b)]

\* ------------------------------------------------------------------------
\* parachain::Activity
\* ------------------------------------------------------------------------
\* Mutant: the bytes are read as a fixed-width hash.
DecodeActivityAsHash(in) == DecodeH256(in)

DecodeActivity(in) == DecodeVecU8(in)

EncodeActivity(a) == EncodeVecU8(a)

\* ------------------------------------------------------------------------
\* parachain::Statement
\* ------------------------------------------------------------------------
KindCandidate == 1
KindValid == 2
KindInvalid == 3
KindAvailable == 4

\* Mutant: Invalid is written with the discriminant of Valid.
EncodeStatementAliased(s) ==
    CASE s.tag = "Candidate" -> <<KindCandidate>> \o EncodeCandidateReceipt(s.candidate)
      [] s.tag = "Valid" -> <<KindValid>> \o EncodeH256(s.hash)
      [] s.tag = "Invalid" -> <<KindValid>> \o EncodeH256(s.hash)
      [] s.tag = "Available" -> <<KindAvailable>> \o EncodeH256(s.hash)

EncodeStatement(s) ==
    CASE s.tag = "Candidate" -> <<KindCandidate>> \o EncodeCandidateReceipt(s.candidate)
      [] s.tag = "Valid" -> <<KindValid>> \o EncodeH256(s.hash)
      [] s.tag = "Invalid" -> <<KindInvalid>> \o EncodeH256(s.hash)
      [] s.tag = "Available" -> <<KindAvailable>> \o EncodeH256(s.hash)

DecodeStatement(in) ==
    AndThen(ReadByte(in), LAMBDA x, in1 :
        CASE x = KindCandidate ->
                AndThen(DecodeCandidateReceipt(in1), LAMBDA c, in2 :
                    Ok([tag |-> "Candidate", candidate |-> c], in2))
          [] x = KindValid ->
                AndThen(DecodeH256(in1), LAMBDA h, in2 : Ok([tag |-> "Valid", hash |-> h], in2))
          [] x = KindInvalid ->
                AndThen(DecodeH256(in1), LAMBDA h, in2 : Ok([tag |-> "Invalid", hash |-> h], in2))
          [] x = KindAvailable ->
                AndThen(DecodeH256(in1), LAMBDA h, in2 : Ok([tag |-> "Available", hash |-> h], in2))
          [] OTHER -> Fail(in1))

\* ------------------------------------------------------------------------
\* The Slicable capability by type.  Message, ConsolidatedIngress,
\* BlockData, HeadData and ValidationCode are declared without an impl.
\* ------------------------------------------------------------------------
SlicableTypes == {"Id", "Chain", "DutyRoster", "CandidateReceipt", "Activity", "Statement"}

OpaqueTypes == {"Message", "ConsolidatedIngress", "BlockData", "HeadData", "ValidationCode"}

Encode(ty, x) ==
    CASE ty = "Id" -> EncodeId(x)
      [] ty = "Chain" -> EncodeChain(x)
      [] ty = "DutyRoster" -> EncodeDutyRoster(x)
      [] ty = "CandidateReceipt" -> EncodeCandidateReceipt(x)
      [] ty = "Activity" -> EncodeActivity(x)
      [] ty = "Statement" -> EncodeStatement(x)

Decode(ty, in) ==
    CASE ty = "Id" -> DecodeId(in)
      [] ty = "Chain" -> DecodeChain(in)
      [] ty = "DutyRoster" -> DecodeDutyRoster(in)
      [] ty = "CandidateReceipt" -> DecodeCandidateReceipt(in)
      [] ty = "Activity" -> DecodeActivity(in)
      [] ty = "Statement" -> DecodeStatement(in)

\* ------------------------------------------------------------------------
\* The values and inputs the model draws from
\* ------------------------------------------------------------------------
SeqsUpTo(S, n) == UNION {[1..k -> S] : k \in 0..n}

HashOf(k) == [i \in 1..H256Len |-> (16 * k + i) % 128]

Ids == {7, 256}

Hashes == {HashOf(1), HashOf(2)}

ByteStrings == SeqsUpTo({1, 2}, MaxHead)

UploadElems == {<<HashOf(1), [lo |-> 5, hi |-> 0]>>, <<HashOf(2), [lo |-> 258, hi |-> 1]>>}

EgressElems == {<<256, HashOf(2)>>}

Chains == {Relay} \cup {Parachain(i) : i \in Ids}

DutyRosters ==
    [validator_duty : SeqsUpTo(Chains, MaxDuty), guarantor_duty : SeqsUpTo(Chains, MaxDuty)]

CandidateReceipts ==
    [parachain_index : Ids,
     collator : {HashOf(1)},
     head_data : ByteStrings,
     balance_uploads : SeqsUpTo(UploadElems, MaxUploads),
     egress_queue_roots : SeqsUpTo(EgressElems, MaxEgress),
     fees : {[lo |-> 65539, hi |-> 2]}]

Statements ==
    {[tag |-> "Candidate", candidate |-> c] : c \in CandidateReceipts}
        \cup [tag : {"Valid", "Invalid", "Available"}, hash : Hashes]

ConsolidatedIngresses == SeqsUpTo(Ids \X SeqsUpTo(ByteStrings, 1), 1)

ValuesOf(ty) ==
    CASE ty = "Id" -> Ids
      [] ty = "Chain" -> Chains
      [] ty = "DutyRoster" -> DutyRosters
      [] ty = "CandidateReceipt" -> CandidateReceipts
      [] ty = "Statement" -> Statements
      [] ty = "ConsolidatedIngress" -> ConsolidatedIngresses
      [] OTHER -> ByteStrings

\* Bytes that follow an encoding in the reader.
Suffixes == SeqsUpTo({0, 1, 127}, MaxSuffix)

\* Bytes written over a byte of an encoding.
CorruptBytes == {0, 2, 127}

MaxCorruptAt == 10

Min(a, b) == IF a < b THEN a ELSE b

\* ------------------------------------------------------------------------
\* State
\* ------------------------------------------------------------------------
VARIABLES
    v,      \* the value at hand: [ty, val]
    pc,     \* "new", "encoded", "decoded" or "compared"
    bytes,  \* encode(v), once encoded
    mode,   \* how the decoded input was made from bytes
    input,  \* the bytes the reader was over
    res,    \* the result of the decode
    other,  \* the receipt v was compared with
    ord     \* [cmp, partial_cmp] of v and other

vars == <<v, pc, bytes, mode, input, res, other, ord>>

NoResult == Fail(NewInput(<<>>))

Init ==
    /\ \E ty \in SlicableTypes \cup OpaqueTypes :
          \E x \in ValuesOf(ty) : v = [ty |-> ty, val |-> x]
    /\ pc = "new"
    /\ bytes = <<>>
    /\ mode = "none"
    /\ input = <<>>
    /\ res = NoResult
    /\ other = <<>>
    /\ ord = <<>>

\* v.encode(), for the types that implement Slicable.
DoEncode ==
    /\ pc = "new"
    /\ v.ty \in SlicableTypes
    /\ bytes' = Encode(v.ty, v.val)
    /\ pc' = "encoded"
    /\ UNCHANGED <<v, mode, input, res, other, ord>>

DecodeFrom(m, b) ==
    /\ pc = "encoded"
    /\ mode' = m
    /\ input' = b
    /\ res' = Decode(v.ty, NewInput(b))
    /\ pc' = "decoded"
    /\ UNCHANGED <<v, bytes, other, ord>>

\* T::decode over a reader holding encode(v) followed by s.
DecodeFollowedBy(s) == DecodeFrom(IF s = <<>> THEN "exact" ELSE "followed", bytes \o s)

\* T::decode over a reader holding the first n bytes of encode(v).
DecodeTruncated(n) == DecodeFrom("truncated", SubSeq(bytes, 1, n))

\* T::decode over a reader holding encode(v) with byte i replaced by b.
DecodeCorrupted(i, b) ==
    /\ pc = "encoded"
    /\ bytes[i] # b
    /\ DecodeFrom("corrupted", [bytes EXCEPT ![i] = b])

AltRest ==
    [parachain_index |-> 7,
     collator |-> HashOf(2),
     head_data |-> <<>>,
     balance_uploads |-> <<<<HashOf(2), [lo |-> 258, hi |-> 1]>>>>,
     egress_queue_roots |-> <<<<256, HashOf(1)>>>>,
     fees |-> [lo |-> 1, hi |-> 0]]

\* v.cmp(&b) and v.partial_cmp(&b) for receipts.  b takes its ordering key
\* from any receipt, and its other fields from v or (alt) from AltRest.
DoCompare(key, alt) ==
    /\ pc = "new"
    /\ v.ty = "CandidateReceipt"
    /\ LET rest == IF alt THEN AltRest ELSE v.val
           b == [rest EXCEPT !.parachain_index = key.parachain_index,
                             !.head_data = key.head_data] IN
       /\ other' = b
       /\ ord' = [cmp |-> CmpCandidateReceipt(v.val, b),
                  partial_cmp |-> PartialCmpCandidateReceipt(v.val, b)]
    /\ pc' = "compared"
    /\ UNCHANGED <<v, bytes, mode, input, res>>

Next ==
    \/ DoEncode
    \/ \E s \in Suffixes : DecodeFollowedBy(s)
    \/ \E n \in 0..(Len(bytes) - 1) : DecodeTruncated(n)
    \/ \E i \in 1..Min(Len(bytes), MaxCorruptAt) : \E b \in CorruptBytes : DecodeCorrupted(i, b)
    \/ \E key \in [parachain_index : Ids, head_data : ByteStrings] : \E alt \in BOOLEAN : DoCompare(key, alt)

Spec == Init /\ [][Next]_vars

\* ------------------------------------------------------------------------
\* Properties
\* ------------------------------------------------------------------------
Decoded(m) == pc = "decoded" /\ mode = m

\* The bytes of n in w bytes, least significant first.
LittleEndian(n, w) == [i \in 1..w |-> (n \div (256 ^ (i - 1))) % 256]

LittleEndian64(x) == LittleEndian(x.lo, 4) \o LittleEndian(x.hi, 4)

RECURSIVE Concat(_)
Concat(ss) == IF ss = <<>> THEN <<>> ELSE Head(ss) \o Concat(Tail(ss))

Wants(log) == [i \in 1..Len(log) |-> log[i].want]

\* Byte-lexicographic comparison, stated without recursion.
LexLess(a, b) ==
    \E k \in 1..Len(b) :
        /\ \A j \in 1..(k - 1) : j <= Len(a) /\ a[j] = b[j]
        /\ (k > Len(a) \/ (k - 1 <= Len(a) /\ a[k] < b[k]))

LexOrder(a, b) == IF a = b THEN "Equal" ELSE IF LexLess(a, b) THEN "Less" ELSE "Greater"

\* C1: decoding a reader positioned at the start of encode(v) succeeds and
\* returns a value equal to v, for v an Id, Chain, DutyRoster,
\* CandidateReceipt or Statement.
C1_RoundTrip ==
    (Decoded("exact") /\ v.ty \in {"Id", "Chain", "DutyRoster", "CandidateReceipt", "Statement"})
        => (res.ok /\ res.val = v.val)

C1_Witness ==
    /\ Decoded("exact")
    /\ v.ty = "Statement"
    /\ v.val.tag = "Invalid"
    /\ res.ok
    /\ res.val.tag = "Invalid"

\* C2: a Chain input whose first byte is not 0 or 1, and a Statement input
\* whose first byte is not 1, 2, 3 or 4, decodes to failure whatever follows.
BadDiscriminant ==
    /\ pc = "decoded"
    /\ input # <<>>
    /\ \/ v.ty = "Chain" /\ input[1] \notin {0, 1}
       \/ v.ty = "Statement" /\ input[1] \notin {1, 2, 3, 4}

C2_UnknownDiscriminantRejected == BadDiscriminant => (~res.ok /\ res.val = <<>>)

C2_Witness ==
    /\ BadDiscriminant
    /\ v.ty = "Statement"
    /\ input[1] = 0
    /\ Len(input) > 1
    /\ ~res.ok

\* C3: decoding a Chain, DutyRoster, CandidateReceipt or Statement from a
\* strict prefix of encode(v) returns failure.
C3_TruncationFails ==
    (Decoded("truncated") /\ v.ty \in {"Chain", "DutyRoster", "CandidateReceipt", "Statement"})
        => (Len(input) < Len(bytes) /\ ~res.ok)

C3_Witness ==
    /\ Decoded("truncated")
    /\ v.ty = "CandidateReceipt"
    /\ Len(input) = Len(bytes) - 1
    /\ v.val.balance_uploads # <<>>
    /\ ~res.ok

\* C4: cmp(a, b) is the numeric comparison of the parachain_index fields
\* when they differ and otherwise the byte-lexicographic comparison of the
\* head_data fields, and partial_cmp(a, b) is Some(cmp(a, b)).
C4_OrderingKey ==
    pc = "compared" =>
        /\ v.val.parachain_index < other.parachain_index => ord.cmp = "Less"
        /\ v.val.parachain_index > other.parachain_index => ord.cmp = "Greater"
        /\ v.val.parachain_index = other.parachain_index
              => ord.cmp = LexOrder(v.val.head_data, other.head_data)
        /\ ord.partial_cmp = [some |-> TRUE, val |-> ord.cmp]

C4_Witness ==
    /\ pc = "compared"
    /\ v.val.parachain_index < other.parachain_index
    /\ LexLess(other.head_data, v.val.head_data)
    /\ ord.cmp = "Less"

\* C5: receipts with equal parachain_index and equal head_data compare
\* Equal, also when their other fields, and so their encodings, differ.
C5_WeakEquality ==
    (pc = "compared"
        /\ v.val.parachain_index = other.parachain_index
        /\ v.val.head_data = other.head_data)
        => ord.cmp = "Equal"

C5_Witness ==
    /\ pc = "compared"
    /\ v.val.parachain_index = other.parachain_index
    /\ v.val.head_data = other.head_data
    /\ v.val.collator # other.collator
    /\ v.val.fees # other.fees
    /\ v.val # other
    /\ EncodeCandidateReceipt(v.val) # EncodeCandidateReceipt(other)
    /\ ord.cmp = "Equal"

\* C6: encode(r) of a CandidateReceipt is the concatenation of
\* parachain_index (4 bytes little-endian), collator (32 bytes), head_data
\* (length-prefixed bytes), balance_uploads (length-prefixed; account id then
\* 8 bytes little-endian), egress_queue_roots (length-prefixed; 4-byte Id then
\* hash) and fees (8 bytes little-endian), with nothing else; decode reads
\* the fields in that order.
ReceiptLayout(r) ==
    Concat(<< LittleEndian(r.parachain_index, 4),
              r.collator,
              LengthPrefix(Len(r.head_data)),
              r.head_data,
              LengthPrefix(Len(r.balance_uploads)),
              Concat([i \in 1..Len(r.balance_uploads) |->
                         r.balance_uploads[i][1] \o LittleEndian64(r.balance_uploads[i][2])]),
              LengthPrefix(Len(r.egress_queue_roots)),
              Concat([i \in 1..Len(r.egress_queue_roots) |->
                         LittleEndian(r.egress_queue_roots[i][1], 4) \o r.egress_queue_roots[i][2]]),
              LittleEndian64(r.fees) >>)

ReceiptReads(r) ==
    Concat(<< <<4, H256Len, Len(LengthPrefix(0)), Len(r.head_data)>>,
              <<Len(LengthPrefix(0))>>,
              Concat([i \in 1..Len(r.balance_uploads) |-> <<H256Len, 8>>]),
              <<Len(LengthPrefix(0))>>,
              Concat([i \in 1..Len(r.egress_queue_roots) |-> <<4, H256Len>>]),
              <<8>> >>)

C6_ReceiptLayout ==
    (pc \in {"encoded", "decoded"} /\ v.ty = "CandidateReceipt") =>
        /\ bytes = ReceiptLayout(v.val)
        /\ Len(v.val.collator) = H256Len
        /\ Decoded("exact") =>
              /\ res.ok
              /\ Wants(res.in.log) = ReceiptReads(v.val)
              /\ \A i \in 1..Len(res.in.log) : res.in.log[i].got = res.in.log[i].want

C6_Witness ==
    /\ Decoded("exact")
    /\ v.ty = "CandidateReceipt"
    /\ v.val.head_data # <<>>
    /\ v.val.balance_uploads # <<>>
    /\ v.val.egress_queue_roots # <<>>
    /\ v.val.fees.hi # 0
    /\ res.ok

\* C7: encode(DutyRoster) is the length prefix and the Chain encodings of
\* validator_duty, then those of guarantor_duty (Relay = 00, Parachain(id) =
\* 01 and the id in 4 bytes little-endian); [Relay, Parachain(7)] and []
\* give length-prefix(2) 00 01 07 00 00 00 length-prefix(0).
ChainLayout(c) == IF c = Relay THEN <<0>> ELSE <<1>> \o LittleEndian(c.id, 4)

DutyLayout(cs) == LengthPrefix(Len(cs)) \o Concat([i \in 1..Len(cs) |-> ChainLayout(cs[i])])

ExampleRoster == [validator_duty |-> <<Relay, Parachain(7)>>, guarantor_duty |-> <<>>]

C7_DutyRosterLayout ==
    (pc \in {"encoded", "decoded"} /\ v.ty = "DutyRoster") =>
        /\ bytes = DutyLayout(v.val.validator_duty) \o DutyLayout(v.val.guarantor_duty)
        /\ v.val = ExampleRoster
              => bytes = LengthPrefix(2) \o <<0, 1, 7, 0, 0, 0>> \o LengthPrefix(0)

C7_Witness ==
    /\ pc = "encoded"
    /\ v.ty = "DutyRoster"
    /\ v.val = ExampleRoster
    /\ Len(bytes) = 6 + 2 * Len(LengthPrefix(0))

Forward(in) ==
    /\ \A i \in 1..Len(in.log) :
          /\ in.log[i].at >= 0
          /\ i > 1 => in.log[i].at >= in.log[i - 1].at + in.log[i - 1].got
    /\ in.log # <<>> => in.pos >= in.log[Len(in.log)].at
    /\ in.pos <= Len(in.buf)

C9_ExactConsumption ==
    pc = "decoded" =>
        /\ Forward(res.in)
        /\ (mode \in {"exact", "followed"}
               /\ v.ty \in {"Chain", "DutyRoster", "CandidateReceipt", "Statement"})
              => /\ res.ok
                 /\ res.val = v.val
                 /\ res.in.pos = Len(bytes)
                 /\ input = bytes \o Remaining(res.in)
        /\ (v.ty = "Chain" /\ input # <<>> /\ input[1] = 0)
              => (res.ok /\ res.val = Relay /\ res.in.pos = 1)

C9_Witness ==
    /\ Decoded("followed")
    /\ v.ty = "Chain"
    /\ v.val = Relay
    /\ Remaining(res.in) # <<>>
    /\ res.in.pos = 1

\* C10: when the decode of a field of a CandidateReceipt or DutyRoster
\* fails, the whole decode fails without a value and no read is issued for a
\* later field; a Chain or Statement whose payload fails to decode fails.
FieldKinds(ty) ==
    IF ty = "CandidateReceipt"
    THEN <<"Id", "H256", "VecU8", "VecUpload", "VecEgress", "U64">>
    ELSE <<"VecChain", "VecChain">>

DecodeField(kind, in) ==
    CASE kind = "Id" -> DecodeId(in)
      [] kind = "H256" -> DecodeH256(in)
      [] kind = "VecU8" -> DecodeVecU8(in)
      [] kind = "VecUpload" -> DecodeVec("Upload", in)
      [] kind = "VecEgress" -> DecodeVec("Egress", in)
      [] kind = "U64" -> DecodeU64(in)
      [] kind = "VecChain" -> DecodeVec("Chain", in)

\* The reader as the first failing field leaves it, fields taken in order.
RECURSIVE FirstFailure(_, _)
AfterField(r, kinds) ==
    IF r.ok THEN FirstFailure(kinds, r.in) ELSE [failed |-> TRUE, in |-> r.in]

FirstFailure(kinds, in) ==
    IF kinds = <<>> THEN [failed |-> FALSE, in |-> in]
    ELSE AfterField(DecodeField(Head(kinds), in), Tail(kinds))

FailsAt(f) == f.failed => (~res.ok /\ res.val = <<>> /\ res.in = f.in)

PayloadFails ==
    /\ input # <<>>
    /\ \/ /\ v.ty = "Chain"
          /\ input[1] = 1
          /\ ~DecodeId(NewInput(Tail(input))).ok
       \/ /\ v.ty = "Statement"
          /\ input[1] \in {KindValid, KindInvalid, KindAvailable}
          /\ ~DecodeH256(NewInput(Tail(input))).ok
       \/ /\ v.ty = "Statement"
          /\ input[1] = KindCandidate
          /\ ~DecodeCandidateReceipt(NewInput(Tail(input))).ok

C10_ShortCircuit ==
    pc = "decoded" =>
        /\ v.ty \in {"CandidateReceipt", "DutyRoster"}
              => FailsAt(FirstFailure(FieldKinds(v.ty), NewInput(input)))
        /\ PayloadFails => (~res.ok /\ res.val = <<>>)

C10_Witness ==
    /\ Decoded("corrupted")
    /\ v.ty = "DutyRoster"
    /\ ~DecodeVec("Chain", NewInput(input)).ok
    /\ Remaining(res.in) # <<>>
    /\ ~res.ok

====
